---- MODULE Spec2Model ----
(***************************************************************************)
(* Model of patterns.py: the Publisher event-dispatch registry with its    *)
(* Command variants, and the FileManager load/save helper.                 *)
(***************************************************************************)
EXTENDS Integers, Sequences, FiniteSets, TLC

(***************************************************************************)
(* Bounds                                                                  *)
(***************************************************************************)
\* number of distinct keys that are ever registered in one behaviour
MaxKeys == 2

(***************************************************************************)
(* Values the Publisher sees                                               *)
(***************************************************************************)
\* an ipywidgets.Widget instance
Widgets == {"w1"}
\* a hashable value that is neither a Widget nor a dict (a str)
Others == {"s1"}
\* everything that can stand at subscriber[0] / event['owner']
Sources == Widgets \cup Others
\* two distinct handler callables
Handlers == {"h1", "h2"}
\* event kind strings: the two documented kinds, another casing of 'click',
\* and the empty string
Kinds == {"click", "notify", "Click", ""}

\* a dict event {'owner': o, 'type': k}
DictEvent(o, k) == [shape |-> "dict", obj |-> o, type |-> k]
\* a bare value passed as the event
BareEvent(s) == [shape |-> "bare", obj |-> s, type |-> "-"]
Events == {DictEvent(o, k) : o \in Sources, k \in Kinds} \cup {BareEvent(s) : s \in Sources}
NoEvent == [shape |-> "-", obj |-> "-", type |-> "-"]

\* the triple (source, handler, kind) given to register / unregister
Subscribers == [source : Sources, handler : Handlers, kind : Kinds]
NoSub == [source |-> "-", handler |-> "-", kind |-> "-"]
NoCmd == [cls |-> "-", handler |-> "-"]

\* isinstance(x, Widget)
IsWidget(x) == x.shape = "bare" /\ x.obj \in Widgets
\* isinstance(x, dict)
IsDict(x) == x.shape = "dict"

VARIABLES
    observers,      \* Publisher.observers: (source, kind) -> Command
    registered,     \* history: keys that were ever given to a successful register
    unregistered,   \* history: keys removed by unregister and not registered since
    last,           \* history: the register call, if the latest Publisher call was one
    op,             \* the Publisher / Command call that has just run, and its arguments
    outcome,        \* "ok" or the exception that call raised
    calls,          \* handler invocations made by that call, in order
    fsDirs,         \* directories of the filesystem
    fsFiles,        \* files of the filesystem: path -> content
    fop,            \* the FileManager call that has run, and its arguments
    fresult,        \* its return value or exception
    parserCalls     \* pandas readers invoked by the last load_data

pubVars == <<observers, registered, unregistered, last, op, outcome, calls>>
fileVars == <<fsDirs, fsFiles, fop, fresult, parserCalls>>
vars == <<observers, registered, unregistered, last, op, outcome, calls,
          fsDirs, fsFiles, fop, fresult, parserCalls>>

(***************************************************************************)
(* Command, ClickCommand, NotifyCommand, CommandFactory                    *)
(***************************************************************************)
\* ClickCommand.__call__ without the isinstance check
ClickCommandCall_unchecked(handler, button) ==
    <<[handler |-> handler, arg |-> button]>>

\* ClickCommand.__call__: the handler calls made for `button`
ClickCommandCall(handler, button) ==
    IF IsWidget(button) THEN <<[handler |-> handler, arg |-> button]>> ELSE <<>>

\* NotifyCommand.__call__: the handler calls made for `event`
NotifyCommandCall(handler, event) ==
    IF IsDict(event) THEN <<[handler |-> handler, arg |-> event]>> ELSE <<>>

\* a factory that compares the kind case-insensitively (event_type.lower())
construct_lower(event_type, handler) ==
    [cls |-> IF event_type \in {"click", "Click"} THEN "ClickCommand" ELSE "NotifyCommand",
     handler |-> handler]

\* CommandFactory.construct(event_type, handler)
construct(event_type, handler) ==
    [cls |-> IF event_type = "click" THEN "ClickCommand" ELSE "NotifyCommand",
     handler |-> handler]

\* cmd(target): dynamic dispatch on the command's class
CommandCall(cmd, target) ==
    IF cmd.cls = "ClickCommand"
    THEN ClickCommandCall(cmd.handler, target)
    ELSE NotifyCommandCall(cmd.handler, target)

(***************************************************************************)
(* Publisher                                                               *)
(***************************************************************************)
\* a lookup that takes the kind of every event to be 'click'
LookupKey_ownerOnly(event) == <<event.obj, "click">>

\* the key Publisher.__call__ looks up for an event
LookupKey(event) ==
    IF IsDict(event) THEN <<event.obj, event.type>> ELSE <<event.obj, "click">>

OpRec(name, sub, event, cmd, replaced, fresh) ==
    [name |-> name, sub |-> sub, event |-> event, cmd |-> cmd,
     replaced |-> replaced, fresh |-> fresh]
\* no call is running: the caller has control
Ready == OpRec("ready", NoSub, NoEvent, NoCmd, "-", FALSE)
NoLast == [sub |-> NoSub, replaced |-> "-"]
KeyOf(sub) == <<sub.source, sub.kind>>

\* Publisher.__init__
PublisherInit ==
    /\ observers = <<>>
    /\ registered = {}
    /\ unregistered = {}
    /\ last = NoLast
    /\ op = Ready
    /\ outcome = "ok"
    /\ calls = <<>>

\* register through dict.setdefault: an existing binding is kept
register_setdefault(subscriber) ==
    LET key == KeyOf(subscriber)
        cmd == construct(subscriber.kind, subscriber.handler)
        replaced == IF key \in DOMAIN observers THEN observers[key].handler ELSE "-"
    IN  /\ op = Ready
        /\ Cardinality(registered \cup {key}) <= MaxKeys
        /\ observers' = [k \in DOMAIN observers \cup {key} |->
                            IF k \in DOMAIN observers THEN observers[k] ELSE cmd]
        /\ registered' = registered \cup {key}
        /\ unregistered' = unregistered \ {key}
        /\ last' = [sub |-> subscriber, replaced |-> replaced]
        /\ op' = OpRec("register", subscriber, NoEvent, NoCmd, replaced, FALSE)
        /\ outcome' = "ok"
        /\ calls' = <<>>
        /\ UNCHANGED fileVars

\* Publisher.register(subscriber)
register(subscriber) ==
    LET key == KeyOf(subscriber)
        cmd == construct(subscriber.kind, subscriber.handler)
        replaced == IF key \in DOMAIN observers THEN observers[key].handler ELSE "-"
    IN  /\ op = Ready
        /\ Cardinality(registered \cup {key}) <= MaxKeys
        /\ observers' = [k \in DOMAIN observers \cup {key} |->
                            IF k = key THEN cmd ELSE observers[k]]
        /\ registered' = registered \cup {key}
        /\ unregistered' = unregistered \ {key}
        /\ last' = [sub |-> subscriber, replaced |-> replaced]
        /\ op' = OpRec("register", subscriber, NoEvent, NoCmd, replaced, FALSE)
        /\ outcome' = "ok"
        /\ calls' = <<>>
        /\ UNCHANGED fileVars

\* unregister that reads the binding (dict.__getitem__) and leaves it in place
unregister_keep(observer) ==
    LET key == KeyOf(observer)
        removed == IF key \in DOMAIN observers THEN observers[key].handler ELSE "-"
    IN  /\ op = Ready
        /\ IF key \in DOMAIN observers
           THEN /\ UNCHANGED observers
                /\ unregistered' = unregistered \cup {key}
                /\ outcome' = "ok"
           ELSE /\ UNCHANGED <<observers, unregistered>>
                /\ outcome' = "KeyError"
        /\ last' = NoLast
        /\ op' = OpRec("unregister", observer, NoEvent, NoCmd, removed, FALSE)
        /\ calls' = <<>>
        /\ UNCHANGED registered
        /\ UNCHANGED fileVars

\* unregister through dict.pop(key, None): a missing key is not an error
unregister_default(observer) ==
    LET key == KeyOf(observer)
        removed == IF key \in DOMAIN observers THEN observers[key].handler ELSE "-"
    IN  /\ op = Ready
        /\ IF key \in DOMAIN observers
           THEN /\ observers' = [k \in DOMAIN observers \ {key} |-> observers[k]]
                /\ unregistered' = unregistered \cup {key}
           ELSE /\ UNCHANGED <<observers, unregistered>>
        /\ outcome' = "ok"
        /\ last' = NoLast
        /\ op' = OpRec("unregister", observer, NoEvent, NoCmd, removed, FALSE)
        /\ calls' = <<>>
        /\ UNCHANGED registered
        /\ UNCHANGED fileVars

\* unregister that drops every binding of the observer's source
unregister_bySource(observer) ==
    LET key == KeyOf(observer)
        removed == IF key \in DOMAIN observers THEN observers[key].handler ELSE "-"
        gone == {k \in DOMAIN observers : k[1] = key[1]}
    IN  /\ op = Ready
        /\ IF key \in DOMAIN observers
           THEN /\ observers' = [k \in DOMAIN observers \ gone |-> observers[k]]
                /\ unregistered' = unregistered \cup gone
                /\ outcome' = "ok"
           ELSE /\ UNCHANGED <<observers, unregistered>>
                /\ outcome' = "KeyError"
        /\ last' = NoLast
        /\ op' = OpRec("unregister", observer, NoEvent, NoCmd, removed, FALSE)
        /\ calls' = <<>>
        /\ UNCHANGED registered
        /\ UNCHANGED fileVars

\* unregister that removes the binding only of the handler it is given
unregister_matchHandler(observer) ==
    LET key == KeyOf(observer)
        removed == IF key \in DOMAIN observers THEN observers[key].handler ELSE "-"
    IN  /\ op = Ready
        /\ IF key \in DOMAIN observers /\ observers[key].handler = observer.handler
           THEN /\ observers' = [k \in DOMAIN observers \ {key} |-> observers[k]]
                /\ unregistered' = unregistered \cup {key}
                /\ outcome' = "ok"
           ELSE /\ UNCHANGED <<observers, unregistered>>
                /\ outcome' = IF key \in DOMAIN observers THEN "ok" ELSE "KeyError"
        /\ last' = NoLast
        /\ op' = OpRec("unregister", observer, NoEvent, NoCmd, removed, FALSE)
        /\ calls' = <<>>
        /\ UNCHANGED registered
        /\ UNCHANGED fileVars

\* Publisher.unregister(observer): dict.pop without a default
unregister(observer) ==
    LET key == KeyOf(observer)
        removed == IF key \in DOMAIN observers THEN observers[key].handler ELSE "-"
    IN  /\ op = Ready
        /\ IF key \in DOMAIN observers
           THEN /\ observers' = [k \in DOMAIN observers \ {key} |-> observers[k]]
                /\ unregistered' = unregistered \cup {key}
                /\ outcome' = "ok"
           ELSE /\ UNCHANGED <<observers, unregistered>>
                /\ outcome' = "KeyError"
        /\ last' = NoLast
        /\ op' = OpRec("unregister", observer, NoEvent, NoCmd, removed, FALSE)
        /\ calls' = <<>>
        /\ UNCHANGED registered
        /\ UNCHANGED fileVars

\* the record of a dispatch: whether it follows the register of its own key
DispatchRec(event) ==
    LET fresh == last # NoLast /\ KeyOf(last.sub) = LookupKey(event)
    IN  OpRec("dispatch", NoSub, event, NoCmd, IF fresh THEN last.replaced ELSE "-", fresh)

\* a dispatch that, finding no binding at the key, takes a binding of the
\* same source under another kind
dispatch_anyKind(event) ==
    LET key == LookupKey(event)
        same == {k \in DOMAIN observers : k[1] = key[1]}
    IN  /\ op = Ready
        /\ IF key \in DOMAIN observers
           THEN /\ calls' = CommandCall(observers[key], event)
                /\ outcome' = "ok"
           ELSE IF same # {}
           THEN /\ calls' = <<[handler |-> observers[CHOOSE k \in same : TRUE].handler,
                                arg |-> event]>>
                /\ outcome' = "ok"
           ELSE /\ calls' = <<>>
                /\ outcome' = "KeyError"
        /\ op' = DispatchRec(event)
        /\ last' = NoLast
        /\ UNCHANGED <<observers, registered, unregistered>>
        /\ UNCHANGED fileVars

\* a dispatch that takes the binding out of the registry (dict.pop) to call it
dispatch_pop(event) ==
    LET key == LookupKey(event)
    IN  /\ op = Ready
        /\ IF key \in DOMAIN observers
           THEN /\ calls' = CommandCall(observers[key], event)
                /\ observers' = [k \in DOMAIN observers \ {key} |-> observers[k]]
                /\ outcome' = "ok"
           ELSE /\ calls' = <<>>
                /\ UNCHANGED observers
                /\ outcome' = "KeyError"
        /\ op' = DispatchRec(event)
        /\ last' = NoLast
        /\ UNCHANGED <<registered, unregistered>>
        /\ UNCHANGED fileVars

\* a dispatch that catches the KeyError of a missing binding
dispatch_swallow(event) ==
    LET key == LookupKey(event)
    IN  /\ op = Ready
        /\ calls' = IF key \in DOMAIN observers
                    THEN CommandCall(observers[key], event) ELSE <<>>
        /\ outcome' = "ok"
        /\ op' = DispatchRec(event)
        /\ last' = NoLast
        /\ UNCHANGED <<observers, registered, unregistered>>
        /\ UNCHANGED fileVars

\* Publisher.__call__(event)
dispatch(event) ==
    LET key == LookupKey(event)
    IN  /\ op = Ready
        /\ IF key \in DOMAIN observers
           THEN /\ calls' = CommandCall(observers[key], event)
                /\ outcome' = "ok"
           ELSE /\ calls' = <<>>
                /\ outcome' = "KeyError"
        /\ op' = DispatchRec(event)
        /\ last' = NoLast
        /\ UNCHANGED <<observers, registered, unregistered>>
        /\ UNCHANGED fileVars

\* the command of a binding invoked directly, with any value
invoke(key, target) ==
    LET cmd == observers[key]
    IN  /\ op = Ready
        /\ calls' = CommandCall(cmd, target)
        /\ outcome' = "ok"
        /\ op' = OpRec("invoke", NoSub, target, cmd, "-", FALSE)
        /\ UNCHANGED <<observers, registered, unregistered, last>>
        /\ UNCHANGED fileVars

\* the call returns (or its exception reaches the caller): the caller has control
release ==
    /\ op # Ready
    /\ op' = Ready
    /\ outcome' = "ok"
    /\ calls' = <<>>
    /\ UNCHANGED <<observers, registered, unregistered, last>>
    /\ UNCHANGED fileVars

(***************************************************************************)
(* Strings as sequences of tokens; "json", "csv", "text", "png" and "a"    *)
(* each stand for that run of ordinary characters                          *)
(***************************************************************************)
\* longest filepath given to save_data, in tokens
MaxPathLen == 5
\* longest metadata type string given to load_data, in tokens
MaxTypeLen == 3

\* a filepath is written with "a", ".", "/" and one of the words "json", "csv"
PathChars(word) == {"a", ".", "/", word}
TypeChars == {"text", "/", "json", "csv", "png"}

StringsOver(chars, n) == UNION {[1..k -> chars] : k \in 0..n}
FilePaths == UNION {StringsOver(PathChars(word), MaxPathLen) : word \in {"json", "csv"}}
TypeStrings == StringsOver(TypeChars, MaxTypeLen)

\* the one element of a singleton set
Only(S) == CHOOSE v \in S : TRUE

\* str.split(sep) continued: `done` are the finished pieces, `piece` the open one
RECURSIVE splitFrom(_, _, _, _)
splitFrom(s, sep, done, piece) ==
    IF s = <<>> THEN Append(done, piece)
    ELSE IF Head(s) = sep THEN splitFrom(Tail(s), sep, Append(done, piece), <<>>)
    ELSE splitFrom(Tail(s), sep, done, Append(piece, Head(s)))

\* str.split(sep): the list of pieces, never empty
split(s, sep) == splitFrom(s, sep, <<>>, <<>>)

\* str.rfind(ch), 1-based; 0 when ch does not occur
RECURSIVE rfind(_, _)
rfind(s, ch) ==
    IF s = <<>> THEN 0
    ELSE IF s[Len(s)] = ch THEN Len(s)
    ELSE rfind(SubSeq(s, 1, Len(s) - 1), ch)

\* s[1:]
DropFirst(s) == IF s = <<>> THEN <<>> ELSE Tail(s)
\* s[-1] of a non-empty list
Last(s) == s[Len(s)]
\* s[:-1]
Front(s) == IF s = <<>> THEN <<>> ELSE SubSeq(s, 1, Len(s) - 1)

(***************************************************************************)
(* pathlib.Path (POSIX flavour). The working directory of the process is   *)
(* the filesystem root, so "a" and "/a" name the same entry and a path is  *)
(* the list of its components.                                             *)
(***************************************************************************)
DotDot == <<".", ".">>

\* Path(filepath).parts without the anchor: empty and "." components are dropped
PathParts(filepath) ==
    SelectSeq(split(filepath, "/"), LAMBDA c : c # <<>> /\ c # <<".">>)

\* Path.name
PathName(parts) == IF parts = <<>> THEN <<>> ELSE Last(parts)

\* a suffix that a name may begin with: ".json" has the suffix ".json"
PathSuffix_leadingDot(parts) ==
    LET name == PathName(parts)
        i == rfind(name, ".")
    IN  IF 0 < i /\ i < Len(name) THEN SubSeq(name, i, Len(name)) ELSE <<>>

\* Path.suffix: the final component from its last "." on, when that "." is
\* neither its first nor its last character
PathSuffix(parts) ==
    LET name == PathName(parts)
        i == rfind(name, ".")
    IN  IF 1 < i /\ i < Len(name) THEN SubSeq(name, i, Len(name)) ELSE <<>>

\* Path.parent
PathParent(parts) == Front(parts)

\* FileManager.ALLOWED_FILE_TYPES
ALLOWED_FILE_TYPES == {<<"json">>, <<"csv">>}

(***************************************************************************)
(* The filesystem: a set of directories and a map of files, each entry     *)
(* named by its resolved list of components; the root <<>> always exists   *)
(***************************************************************************)
IsDir(fs, p) == p = <<>> \/ p \in fs.dirs
IsFile(fs, p) == p \in DOMAIN fs.files

\* Path.mkdir(parents=True, exist_ok=True) on the path `parts`, walked from
\* directory `cur`: each missing component is created, an existing directory
\* is accepted, a file in the way raises
RECURSIVE mkdir(_, _, _)
mkdir(fs, cur, parts) ==
    IF parts = <<>> THEN [fs |-> fs, cur |-> cur, err |-> "-"]
    ELSE IF Head(parts) = DotDot THEN mkdir(fs, Front(cur), Tail(parts))
    ELSE LET p == Append(cur, Head(parts))
         IN  IF IsFile(fs, p)
             THEN [fs |-> fs, cur |-> cur,
                   err |-> IF Len(parts) = 1 THEN "FileExistsError" ELSE "NotADirectoryError"]
             ELSE mkdir([fs EXCEPT !.dirs = @ \cup {p}], p, Tail(parts))

\* the file written by DataFrame.to_json(path) / DataFrame.to_csv(path, index=False)
Serialized(data_frame, fmt) == [fmt |-> fmt, table |-> data_frame]

\* open(path, "w") and write: creates or truncates the file, raises on a directory
WriteFile(fs, p, content) ==
    IF IsDir(fs, p) THEN [fs |-> fs, err |-> "IsADirectoryError"]
    ELSE [fs |-> [fs EXCEPT !.files = [q \in DOMAIN fs.files \cup {p} |->
                                          IF q = p THEN content ELSE fs.files[q]]],
          err |-> "-"]

(***************************************************************************)
(* FileManager                                                             *)
(***************************************************************************)
\* DataFrame()
EmptyTable == "empty"
\* the tables given to save_data
Tables == {"t1"}

\* return values
NoValue == [kind |-> "None", val |-> "-"]
TableValue(t) == [kind |-> "DataFrame", val |-> t]
PathValue == [kind |-> "str", val |-> "filepath"]
Raised(e) == [kind |-> "raise", val |-> e]

\* a downloader without the filepath.parent.mkdir(...) line: it writes only
\* into a directory that is already there
FileDownloaderCall_noMkdir(fs, data_frame, parts, file_ext, env) ==
    LET fmt == IF file_ext = <<"json">> THEN "json" ELSE "csv"
        wrote == WriteFile(fs, parts, Serialized(data_frame, fmt))
    IN  IF ~IsDir(fs, PathParent(parts)) THEN [fs |-> fs, ret |-> Raised("FileNotFoundError")]
        ELSE IF env = "write" THEN [fs |-> fs, ret |-> Raised("OSError")]
        ELSE IF wrote.err # "-" THEN [fs |-> fs, ret |-> Raised(wrote.err)]
        ELSE [fs |-> wrote.fs, ret |-> NoValue]

\* __FileDownloader.__call__(data_frame, filepath, file_ext); `env` is the
\* step at which the operating system refuses ("-", "mkdir" or "write").
\* Both pandas writers return None when given a path.
FileDownloaderCall(fs, data_frame, parts, file_ext, env) ==
    Only({
        LET fmt == IF file_ext = <<"json">> THEN "json" ELSE "csv"
            wrote == WriteFile(made.fs, Append(made.cur, PathName(parts)),
                               Serialized(data_frame, fmt))
        IN  IF env = "mkdir" /\ made.fs # fs THEN [fs |-> fs, ret |-> Raised("PermissionError")]
            ELSE IF made.err # "-" THEN [fs |-> made.fs, ret |-> Raised(made.err)]
            ELSE IF env = "write" THEN [fs |-> made.fs, ret |-> Raised("OSError")]
            ELSE IF wrote.err # "-" THEN [fs |-> made.fs, ret |-> Raised(wrote.err)]
            ELSE [fs |-> wrote.fs, ret |-> NoValue]
        : made \in {mkdir(fs, <<>>, PathParent(parts))}})

\* save_data that calls the downloader's mkdir before looking at the suffix
SaveDataResult_mkdirFirst(fs, data_frame, filepath, env) ==
    Only({
        LET file_ext == DropFirst(PathSuffix(path_obj))
        IN  IF file_ext \in ALLOWED_FILE_TYPES
            THEN FileDownloaderCall(fs, data_frame, path_obj, file_ext, env)
            ELSE [fs |-> mkdir(fs, <<>>, PathParent(path_obj)).fs, ret |-> NoValue]
        : path_obj \in {PathParts(filepath)}})

\* FileManager.save_data(data_frame, filepath)
SaveDataResult(fs, data_frame, filepath, env) ==
    Only({
        LET file_ext == DropFirst(PathSuffix(path_obj))
        IN  IF file_ext \in ALLOWED_FILE_TYPES
            THEN FileDownloaderCall(fs, data_frame, path_obj, file_ext, env)
            ELSE [fs |-> fs, ret |-> NoValue]
        : path_obj \in {PathParts(filepath)}})

FileOp(name, data_frame, filepath, content, metadata, env) ==
    [name |-> name, data_frame |-> data_frame, filepath |-> filepath,
     content |-> content, metadata |-> metadata, env |-> env]
NoMetadata == [hasType |-> FALSE, type |-> <<>>]

\* the FileManager has been constructed and not yet called
Idle == FileOp("idle", "-", <<>>, "-", NoMetadata, "-")

save_data(data_frame, filepath, env) ==
    /\ fop = Idle
    /\ \E fs \in {[dirs |-> fsDirs, files |-> fsFiles]} :
       \E r \in {SaveDataResult(fs, data_frame, filepath, env)} :
        /\ fsDirs' = r.fs.dirs
        /\ fsFiles' = r.fs.files
        /\ fresult' = r.ret
        /\ fop' = FileOp("save_data", data_frame, filepath, "-", NoMetadata, env)
        /\ parserCalls' = <<>>
        /\ UNCHANGED pubVars

\* bytes given to load_data: absent, b"", or the serialization of a table, or
\* bytes that are neither valid JSON nor a well-formed CSV of a known table
NoContent == "None"
EmptyContent == "b''"
Contents == {NoContent, EmptyContent, "json(t1)", "csv(t1)", "garbage"}
\* bool(content)
Truthy(content) == content \notin {NoContent, EmptyContent}

\* the metadata dict: with a 'type' string, or without one
Metadata(type) == [hasType |-> TRUE, type |-> type]
Metadatas == {Metadata(t) : t \in TypeStrings} \cup {NoMetadata}

\* pd.read_json(io.BytesIO(content))
read_json(content) ==
    IF content = "json(t1)" THEN TableValue("t1") ELSE Raised("ValueError")

\* pd.read_csv(io.BytesIO(content)); `lenient` is whether the parser makes
\* some table out of bytes that are not the CSV of a known table
read_csv(content, lenient) ==
    IF content = "csv(t1)" THEN TableValue("t1")
    ELSE IF lenient THEN TableValue("other") ELSE Raised("ParserError")

\* __FileUploader.__call__(content, file_ext)
FileUploaderCall(content, file_ext, lenient) ==
    IF Truthy(content)
    THEN IF file_ext = <<"json">>
         THEN [ret |-> read_json(content), parsers |-> <<"read_json">>]
         ELSE [ret |-> read_csv(content, lenient), parsers |-> <<"read_csv">>]
    ELSE [ret |-> TableValue(EmptyTable), parsers |-> <<>>]

\* load_data that takes the part before the first "/" as the format
LoadDataResult_firstPart(content, metadata, lenient) ==
    IF ~Truthy(content) THEN [ret |-> TableValue(EmptyTable), parsers |-> <<>>]
    ELSE IF ~metadata.hasType THEN [ret |-> Raised("AttributeError"), parsers |-> <<>>]
    ELSE LET file_ext == Head(split(metadata.type, "/"))
         IN  IF file_ext \in ALLOWED_FILE_TYPES
             THEN FileUploaderCall(content, file_ext, lenient)
             ELSE [ret |-> NoValue, parsers |-> <<>>]

\* load_data that checks the format before it checks for empty content
LoadDataResult_formatFirst(content, metadata, lenient) ==
    IF ~metadata.hasType THEN [ret |-> Raised("AttributeError"), parsers |-> <<>>]
    ELSE LET file_ext == Last(split(metadata.type, "/"))
         IN  IF file_ext \in ALLOWED_FILE_TYPES
             THEN FileUploaderCall(content, file_ext, lenient)
             ELSE [ret |-> NoValue, parsers |-> <<>>]

\* FileManager.load_data(content, metadata)
LoadDataResult(content, metadata, lenient) ==
    IF ~Truthy(content) THEN [ret |-> TableValue(EmptyTable), parsers |-> <<>>]
    ELSE IF ~metadata.hasType THEN [ret |-> Raised("AttributeError"), parsers |-> <<>>]
    ELSE LET file_ext == Last(split(metadata.type, "/"))
         IN  IF file_ext \in ALLOWED_FILE_TYPES
             THEN FileUploaderCall(content, file_ext, lenient)
             ELSE [ret |-> NoValue, parsers |-> <<>>]

load_data(content, metadata, lenient) ==
    /\ fop = Idle
    /\ \E r \in {LoadDataResult(content, metadata, lenient)} :
        /\ fresult' = r.ret
        /\ parserCalls' = r.parsers
    /\ fop' = FileOp("load_data", "-", <<>>, content, metadata,
                     IF lenient THEN "lenient" ELSE "strict")
    /\ UNCHANGED <<fsDirs, fsFiles>>
    /\ UNCHANGED pubVars

FilesIdle ==
    /\ fsDirs = {}
    /\ fsFiles = <<>>
    /\ fop = Idle
    /\ fresult = NoValue
    /\ parserCalls = <<>>

Init == PublisherInit /\ FilesIdle

Register == \E s \in Subscribers : register(s)
Unregister == \E s \in Subscribers : unregister(s)
Dispatch == \E e \in Events : dispatch(e)
Invoke == \E key \in DOMAIN observers, e \in Events : invoke(key, e)
Release == release

Next == Register \/ Unregister \/ Dispatch \/ Invoke \/ Release

\* the Publisher under any sequence of calls
Spec == Init /\ [][Next]_vars

\* the filesystems a save_data call is made in: each is empty or has one entry
StartEntries == {<< <<"a">> >>, << <<"a", ".", "json">> >>}
StartFilesystems ==
    {[dirs |-> {}, files |-> <<>>]}
    \cup {[dirs |-> {p}, files |-> <<>>] : p \in StartEntries}
    \cup {[dirs |-> {}, files |-> [q \in {p} |-> Serialized(EmptyTable, "csv")]] :
            p \in StartEntries}

SaveInit ==
    /\ PublisherInit
    /\ \E fs \in StartFilesystems : fsDirs = fs.dirs /\ fsFiles = fs.files
    /\ fop = Idle
    /\ fresult = NoValue
    /\ parserCalls = <<>>

SaveData ==
    /\ fop = Idle
    /\ \E t \in Tables, p \in FilePaths, env \in {"-", "mkdir", "write"} : save_data(t, p, env)

SaveNext == SaveData

\* one save_data call, on any of the start filesystems
SaveSpec == SaveInit /\ [][SaveNext]_vars

LoadData ==
    /\ fop = Idle
    /\ \E c \in Contents, m \in Metadatas, lenient \in BOOLEAN : load_data(c, m, lenient)

LoadNext == LoadData

\* one load_data call
LoadSpec == Init /\ [][LoadNext]_vars

(***************************************************************************)
(* Properties                                                              *)
(***************************************************************************)
\* the event is one the claim C1 calls matching for the subscriber
Matches(event, sub) ==
    \/ IsDict(event) /\ event.obj = sub.source /\ event.type = sub.kind
    \/ event = BareEvent(sub.source) /\ sub.kind = "click"

\* a matching event that also has the shape the subscriber's command forwards
MatchesShape(event, sub) ==
    \/ IsDict(event) /\ event.obj = sub.source /\ event.type = sub.kind /\ sub.kind # "click"
    \/ event = BareEvent(sub.source) /\ sub.kind = "click" /\ sub.source \in Widgets

\* the string after the final occurrence of ch (the whole string when there is none)
AfterFinal(s, ch) == SubSeq(s, rfind(s, ch) + 1, Len(s))

\* C1 as stated: a register followed at once by the dispatch of any matching
\* event (a dict of any kind, or the bare source for 'click') invokes the
\* handler exactly once with that event.
C1_AnyMatchingEventInvokes ==
    [][(last # NoLast /\ op'.name = "dispatch" /\ Matches(op'.event, last.sub))
        => calls' = <<[handler |-> last.sub.handler, arg |-> op'.event]>>]_vars

\* C1 amended: a register followed at once by the dispatch of a dict with the
\* subscriber's owner and kind, the kind not being 'click', or of the bare
\* source when the kind is 'click' and the source is a Widget, invokes the
\* handler exactly once with that event.
C1_MatchingShapeInvokesOnce ==
    [][(last # NoLast /\ op'.name = "dispatch" /\ MatchesShape(op'.event, last.sub))
        => calls' = <<[handler |-> last.sub.handler, arg |-> op'.event]>>]_vars

C1_Witness ==
    /\ op.name = "dispatch" /\ op.fresh
    /\ IsDict(op.event) /\ op.event.type = "notify"
    /\ Len(calls) = 1 /\ calls[1].arg = op.event

\* C2: a dispatch whose lookup key was never registered raises KeyError and
\* invokes no handler.
C2_NeverRegisteredRaises ==
    (op.name = "dispatch" /\ LookupKey(op.event) \notin registered)
        => (outcome = "KeyError" /\ calls = <<>>)

C2_Witness ==
    /\ op.name = "dispatch" /\ LookupKey(op.event) \notin registered
    /\ DOMAIN observers # {}
    /\ outcome = "KeyError"

\* C3: from the unregister of a bound key until the next register of that
\* key, every dispatch with the key raises KeyError and invokes no handler.
C3_UnregisteredRaises ==
    [][(op'.name = "dispatch" /\ LookupKey(op'.event) \in unregistered)
        => (outcome' = "KeyError" /\ calls' = <<>>)]_vars

C3_Witness ==
    /\ op.name = "dispatch" /\ LookupKey(op.event) \in unregistered
    /\ outcome = "KeyError" /\ calls = <<>>

\* C4: unregister of a key that has no binding raises KeyError and leaves
\* the bindings as they were.
C4_UnregisterAbsentRaises ==
    [][(op'.name = "unregister" /\ KeyOf(op'.sub) \notin DOMAIN observers)
        => (outcome' = "KeyError" /\ observers' = observers)]_vars

C4_Witness ==
    /\ op.name = "unregister" /\ outcome = "KeyError"
    /\ KeyOf(op.sub) \in unregistered
    /\ DOMAIN observers # {}

\* C5: register on a bound key succeeds and replaces the binding of that
\* key alone, and a dispatch that follows with that key invokes no handler
\* but the one just registered.
C5_RegisterOverwrites ==
    [][/\ (op'.name = "register" /\ KeyOf(op'.sub) \in DOMAIN observers)
            => /\ outcome' = "ok"
               /\ DOMAIN observers' = DOMAIN observers
               /\ observers'[KeyOf(op'.sub)].handler = op'.sub.handler
       /\ (last # NoLast /\ op'.name = "dispatch"
                /\ LookupKey(op'.event) = KeyOf(last.sub))
            => \A i \in 1..Len(calls') : calls'[i].handler = last.sub.handler]_vars

C5_Witness ==
    /\ op.name = "dispatch" /\ op.fresh
    /\ op.replaced # "-"
    /\ Len(calls) = 1 /\ calls[1].handler # op.replaced

\* the command refuses the value: the isinstance check of its class fails
ShapeFails(cmd, target) ==
    \/ cmd.cls = "ClickCommand" /\ ~IsWidget(target)
    \/ cmd.cls = "NotifyCommand" /\ ~IsDict(target)

\* C6: a command invoked with a value of the wrong shape, directly or by a
\* dispatch, calls no handler and raises nothing.
C6_ShapeFailureIsNoOp ==
    [][/\ (op'.name = "invoke" /\ ShapeFails(op'.cmd, op'.event))
            => (calls' = <<>> /\ outcome' = "ok")
       /\ (op'.name = "dispatch" /\ LookupKey(op'.event) \in DOMAIN observers
                /\ ShapeFails(observers[LookupKey(op'.event)], op'.event))
            => (calls' = <<>> /\ outcome' = "ok")]_vars

C6_Witness ==
    /\ op.name = "invoke" /\ op.cmd.cls = "ClickCommand"
    /\ IsDict(op.event)
    /\ calls = <<>> /\ outcome = "ok"

\* the format save_data derives from the filepath
SuffixOf(filepath) == DropFirst(PathSuffix(PathParts(filepath)))

\* C7: a save_data with a recognized format that raises nothing returns the
\* written file path.
C7_SaveReturnsPath ==
    (fop.name = "save_data" /\ SuffixOf(fop.filepath) \in ALLOWED_FILE_TYPES
        /\ fresult.kind # "raise")
        => fresult = PathValue

\* C8: save_data with a filepath whose suffix is not recognized returns no
\* value, raises nothing and leaves directories and files as they were.
C8_UnrecognizedSaveChangesNothing ==
    [][(fop'.name = "save_data" /\ SuffixOf(fop'.filepath) \notin ALLOWED_FILE_TYPES)
        => (fresult' = NoValue /\ fsDirs' = fsDirs /\ fsFiles' = fsFiles)]_vars

C8_Witness ==
    /\ fop.name = "save_data" /\ SuffixOf(fop.filepath) \notin ALLOWED_FILE_TYPES
    /\ Len(PathParts(fop.filepath)) = 2
    /\ PathParts(fop.filepath)[1] = <<"json">>
    /\ fsDirs = {} /\ fsFiles = <<>>
    /\ fresult = NoValue

\* C9: load_data with non-empty content and a type string whose part after
\* the final "/" is not recognized returns no value, raises nothing and
\* invokes no parser.
C9_UnrecognizedLoadDeclines ==
    (fop.name = "load_data" /\ Truthy(fop.content) /\ fop.metadata.hasType
        /\ AfterFinal(fop.metadata.type, "/") \notin ALLOWED_FILE_TYPES)
        => (fresult = NoValue /\ parserCalls = <<>>)

C9_Witness ==
    /\ fop.name = "load_data" /\ fop.content = "json(t1)"
    /\ fop.metadata = Metadata(<<"json", "/", "png">>)
    /\ fresult = NoValue /\ parserCalls = <<>>

\* C10: load_data with empty or absent content returns an empty table for
\* every metadata, and invokes no parser.
C10_EmptyContentGivesEmptyTable ==
    (fop.name = "load_data" /\ ~Truthy(fop.content))
        => (fresult = TableValue(EmptyTable) /\ parserCalls = <<>>)

C10_Witness ==
    /\ fop.name = "load_data" /\ fop.content = NoContent
    /\ fop.metadata = Metadata(<<"text", "/", "png">>)
    /\ fresult = TableValue(EmptyTable)

\* C11: a dispatch invokes at most one handler, the one bound at
\* (owner, type) for a dict and at (value, 'click') for a bare value, with
\* the event as argument; with nothing bound there it raises KeyError and
\* invokes nothing, whatever is bound for the same source under other kinds.
C11_OnlyTheLookupKey ==
    [][op'.name = "dispatch" =>
        LET e == op'.event
            key == IF e.shape = "dict" THEN <<e.obj, e.type>> ELSE <<e.obj, "click">>
        IN  /\ Len(calls') <= 1
            /\ calls' # <<>> =>
                  /\ key \in DOMAIN observers
                  /\ calls'[1] = [handler |-> observers[key].handler, arg |-> e]
            /\ key \notin DOMAIN observers => (outcome' = "KeyError" /\ calls' = <<>>)]_vars

C11_Witness ==
    /\ op.name = "dispatch" /\ op.event.shape = "bare"
    /\ \E k \in DOMAIN observers : k[1] = op.event.obj /\ k[2] # "click"
    /\ <<op.event.obj, "click">> \notin DOMAIN observers
    /\ outcome = "KeyError" /\ calls = <<>>

\* C12: register((source, handler, kind)) installs at key (source, kind) a
\* command wrapping exactly `handler`, a ClickCommand when kind is 'click'
\* and a NotifyCommand for every other kind string ('notify', '', 'Click').
C12_VariantFromKindAlone ==
    [][op'.name = "register" =>
        LET sub == op'.sub
            key == <<sub.source, sub.kind>>
        IN  /\ key \in DOMAIN observers'
            /\ observers'[key].handler = sub.handler
            /\ observers'[key].cls = "ClickCommand" <=> sub.kind = "click"
            /\ observers'[key].cls = "NotifyCommand" <=> sub.kind # "click"]_vars

C12_Witness ==
    /\ op.name = "register" /\ op.sub.kind = "Click" /\ op.sub.source \in Widgets
    /\ observers[<<op.sub.source, "Click">>] =
           [cls |-> "NotifyCommand", handler |-> op.sub.handler]
    /\ <<op.sub.source, "">> \in DOMAIN observers
    /\ observers[<<op.sub.source, "">>].cls = "NotifyCommand"

\* the directory a relative path names, ".." read lexically from the root
RECURSIVE ResolveFrom(_, _)
ResolveFrom(cur, parts) ==
    IF parts = <<>> THEN cur
    ELSE ResolveFrom(IF Head(parts) = DotDot THEN Front(cur) ELSE Append(cur, Head(parts)),
                     Tail(parts))

\* the ancestor directories of a path, nearest the root first
AncestorDirs(parts) ==
    {ResolveFrom(<<>>, SubSeq(parts, 1, i)) : i \in 1..(Len(parts) - 1)} \ {<<>>}

SaveProceeds ==
    /\ fop'.name = "save_data"
    /\ (fresult'.kind = "raise" \/ fsDirs' # fsDirs \/ fsFiles' # fsFiles)

\* C14 as stated: save_data proceeds to write exactly when the filepath string
\* has a '.' and the text after its final '.' is 'json' or 'csv'.
C14_AfterFinalDotDecides ==
    [][fop'.name = "save_data" =>
        (SaveProceeds <=>
            (/\ rfind(fop'.filepath, ".") > 0
             /\ AfterFinal(fop'.filepath, ".") \in {<<"json">>, <<"csv">>}))]_vars

\* C14, amended: save_data proceeds to write exactly when the final component
\* of the path (empty and "." components, so a trailing '/', set aside) has a
\* '.' that is neither its first nor its last character and the text after
\* the last '.' of that component is 'json' or 'csv'.
C14_SuffixOfNameDecides ==
    [][fop'.name = "save_data" =>
        LET comps == SelectSeq(split(fop'.filepath, "/"),
                               LAMBDA c : c # <<>> /\ c # <<".">>)
            name == IF comps = <<>> THEN <<>> ELSE comps[Len(comps)]
            dot == rfind(name, ".")
        IN  SaveProceeds <=>
                (/\ 1 < dot /\ dot < Len(name)
                 /\ AfterFinal(name, ".") \in {<<"json">>, <<"csv">>})]_vars

\* a name that begins with '.' and has a further dot is written
C14_Witness ==
    /\ fop.name = "save_data" /\ fop.env = "-"
    /\ fop.filepath = <<".", "a", ".", "json">>
    /\ << <<".", "a", ".", "json">> >> \in DOMAIN fsFiles
    /\ fsFiles[<< <<".", "a", ".", "json">> >>] = Serialized(fop.data_frame, "json")

\* C15: a dispatch leaves the registry as it was, whether it invokes a
\* handler, is dropped by the command's shape check, or raises KeyError.
C15_DispatchKeepsRegistry ==
    [][op'.name = "dispatch" => observers' = observers]_vars

C15_Witness ==
    /\ op.name = "dispatch" /\ outcome = "ok" /\ Len(calls) = 1
    /\ Cardinality(DOMAIN observers) = 2
    /\ LookupKey(op.event) \in DOMAIN observers

\* C16: a register or unregister of (source, kind) leaves the binding of every
\* other key as it was; at its own key a register binds the handler given and
\* a successful unregister leaves nothing. So a key is bound exactly when it
\* was registered and not unregistered since.
C16_KeysAreIndependent ==
    /\ [](DOMAIN observers = registered \ unregistered)
    /\ [][op'.name \in {"register", "unregister"} =>
            LET key == <<op'.sub.source, op'.sub.kind>>
            IN  /\ \A k \in (DOMAIN observers \cup DOMAIN observers') \ {key} :
                      /\ k \in DOMAIN observers /\ k \in DOMAIN observers'
                      /\ observers'[k] = observers[k]
                /\ op'.name = "register" =>
                      (key \in DOMAIN observers' /\ observers'[key].handler = op'.sub.handler)
                /\ op'.name = "unregister" => key \notin DOMAIN observers']_vars

C16_Witness ==
    /\ op.name = "unregister" /\ outcome = "ok"
    /\ \E k \in DOMAIN observers : k[1] = op.sub.source /\ k[2] # op.sub.kind

\* C17: unregister((source, h, kind)) removes the binding at (source, kind)
\* whatever handler is bound there and whatever h is.
C17_UnregisterIgnoresHandler ==
    [][(op'.name = "unregister" /\ <<op'.sub.source, op'.sub.kind>> \in DOMAIN observers) =>
        /\ outcome' = "ok"
        /\ <<op'.sub.source, op'.sub.kind>> \notin DOMAIN observers'
        /\ op'.replaced = observers[<<op'.sub.source, op'.sub.kind>>].handler]_vars

C17_Witness ==
    /\ op.name = "unregister" /\ outcome = "ok"
    /\ op.replaced \in Handlers /\ op.replaced # op.sub.handler
    /\ <<op.sub.source, op.sub.kind>> \notin DOMAIN observers

====
